---------------------------- MODULE Spec2Model ----------------------------
(***************************************************************************)
(* A model of backend/app.py of portable-dns-manager: the in-memory zone   *)
(* store dns_data, the audit log, and the Flask request handlers that read *)
(* and write them.                                                         *)
(*                                                                         *)
(* A Python string is a TLA+ string; Chars gives its characters, so that    *)
(* lower() and the substring test of get_records are computed on them.     *)
(* The timestamp that log_action puts in front of an entry is left out:    *)
(* time is not modelled.  A formatted message is kept as its template and  *)
(* the values put in it.                                                   *)
(***************************************************************************)
EXTENDS Integers, Sequences, FiniteSets, TLC

(***************************************************************************)
(* Bounds of the model.                                                    *)
(***************************************************************************)
\* a call is taken only while the audit log holds fewer than MaxLog entries
MaxLog == 3
\* a delete_records or bulk_update batch holds at most MaxBatch items
MaxBatch == 2

(***************************************************************************)
(* Values.                                                                 *)
(***************************************************************************)
\* Python's None: what data.get(key) gives for an absent key.  It is a value
\* of its own: no string a request carries equals it.
None == "<None>"

\* bool(x) of a request value: None and the empty string are falsy
Truthy(x) == x # None /\ x # ""

\* all([...]) over a sequence of request values
all(xs) == \A i \in 1..Len(xs) : Truthy(xs[i])

Rec(h, t, v) == [hostname |-> h, record_type |-> t, value |-> v]

\* the keys of dns_data, in the order of the dict literal
SeedZones == <<"example.com", "sub.example.com", "anotherdomain.local">>

\* the dict literal dns_data
SeedRecords(z) ==
    CASE z = "example.com" -> <<
        Rec("www", "A", "192.168.1.100"),
        Rec("api", "CNAME", "www.example.com"),
        Rec("mail", "MX", "mail.example.com"),
        Rec("txttest", "TXT", "v=spf1 include:_spf.google.com ~all"),
        Rec("srvtest", "SRV", "0 5 5060 sip.example.com") >>
      [] z = "sub.example.com" -> <<
        Rec("dev", "A", "192.168.1.101"),
        Rec("test", "A", "192.168.1.102") >>
      [] z = "anotherdomain.local" -> <<
        Rec("ftp", "CNAME", "dev.example.com"),
        Rec("printer", "A", "192.168.1.103"),
        Rec("vpn", "A", "192.168.1.104") >>

\* log_action's default user
Backend == "Backend"

\* the one credential pair connect accepts
AdminUser == "admin@example.com"
AdminPassword == "password"

(***************************************************************************)
(* The audit log.                                                          *)
(***************************************************************************)
\* A formatted message: the template's fixed text and the values put in it.
Msg(text, fields) == [text |-> text, fields |-> fields]

\* log_action(level, message, user): one entry appended to audit_log.  The
\* levels the program passes are upper case already, so level.upper() is the
\* level itself.
\* (log_action with audit_log.insert(0, log_entry) for the append)
log_action_front(log, level, message, user) ==
    <<[level |-> level, user |-> user, message |-> message]>> \o log

log_action(log, level, message, user) ==
    Append(log, [level |-> level, user |-> user, message |-> message])


(***************************************************************************)
(* String operations of Python that the handlers use.                      *)
(***************************************************************************)
UpperLetters ==
    <<"A","B","C","D","E","F","G","H","I","J","K","L","M",
      "N","O","P","Q","R","S","T","U","V","W","X","Y","Z">>
LowerLetters ==
    <<"a","b","c","d","e","f","g","h","i","j","k","l","m",
      "n","o","p","q","r","s","t","u","v","w","x","y","z">>

\* str.lower() on one character (ASCII)
LowerChar(c) ==
    IF \E i \in 1..26 : UpperLetters[i] = c
    THEN LowerLetters[CHOOSE i \in 1..26 : UpperLetters[i] = c]
    ELSE c

\* the characters of a string: of each hostname and value of the seed and
\* of each search term a request of this model carries
Chars(s) ==
    CASE s = "" -> <<>>
      [] s = "www" ->
        <<"w","w","w">>
      [] s = "api" ->
        <<"a","p","i">>
      [] s = "mail" ->
        <<"m","a","i","l">>
      [] s = "txttest" ->
        <<"t","x","t","t","e","s","t">>
      [] s = "srvtest" ->
        <<"s","r","v","t","e","s","t">>
      [] s = "dev" ->
        <<"d","e","v">>
      [] s = "test" ->
        <<"t","e","s","t">>
      [] s = "ftp" ->
        <<"f","t","p">>
      [] s = "printer" ->
        <<"p","r","i","n","t","e","r">>
      [] s = "vpn" ->
        <<"v","p","n">>
      [] s = "192.168.1.100" ->
        <<"1","9","2",".","1","6","8",".","1",".","1","0","0">>
      [] s = "www.example.com" ->
        <<"w","w","w",".","e","x","a","m","p","l","e",".","c","o","m">>
      [] s = "mail.example.com" ->
        <<"m","a","i","l",".","e","x","a","m","p","l","e",".","c","o","m">>
      [] s = "v=spf1 include:_spf.google.com ~all" ->
        <<"v","=","s","p","f","1"," ","i","n","c","l","u","d","e",":","_","s","p","f",".","g","o","o","g","l","e",".","c","o","m"," ","~","a","l","l">>
      [] s = "0 5 5060 sip.example.com" ->
        <<"0"," ","5"," ","5","0","6","0"," ","s","i","p",".","e","x","a","m","p","l","e",".","c","o","m">>
      [] s = "192.168.1.101" ->
        <<"1","9","2",".","1","6","8",".","1",".","1","0","1">>
      [] s = "192.168.1.102" ->
        <<"1","9","2",".","1","6","8",".","1",".","1","0","2">>
      [] s = "dev.example.com" ->
        <<"d","e","v",".","e","x","a","m","p","l","e",".","c","o","m">>
      [] s = "192.168.1.103" ->
        <<"1","9","2",".","1","6","8",".","1",".","1","0","3">>
      [] s = "192.168.1.104" ->
        <<"1","9","2",".","1","6","8",".","1",".","1","0","4">>
      [] s = "WWW" ->
        <<"W","W","W">>

\* s.lower(), as characters
lower(s) == [i \in 1..Len(Chars(s)) |-> LowerChar(Chars(s)[i])]

\* needle in hay, for strings given as characters
contains(needle, hay) ==
    \E k \in 0..(Len(hay) - Len(needle)) :
        \A i \in 1..Len(needle) : hay[k + i] = needle[i]

\* str(n) of a length or a count, as an f-string formats it
str(n) ==
    <<"0", "1", "2", "3", "4", "5", "6", "7", "8", "9", "10", "11", "12",
      "13", "14", "15", "16", "17", "18", "19", "20">>[n + 1]

(***************************************************************************)
(* The handlers.  Each is an operator from the store, the log and the      *)
(* request to the store and the log after the call and the response:      *)
(* [data, log, status, body].                                              *)
(***************************************************************************)
\* A handler with a loop also gives its local variables when the loop ended
\* and the zone's records before each item (locals); the others give none.
NoLocals == [zones |-> <<>>]

LoopResult(data, log, status, body, locals) ==
    [data |-> data, log |-> log, status |-> status, body |-> body,
     locals |-> locals]

Result(data, log, status, body) == LoopResult(data, log, status, body, NoLocals)

\* zone_name in dns_data
HasZone(data, zone_name) == zone_name \in DOMAIN data

\* list(dns_data.keys()): the keys in insertion order.  No handler adds or
\* removes a key, so the order is the seed's.
keys(data) == SelectSeq(SeedZones, LAMBDA z : z \in DOMAIN data)

\* (the test with the comparison of the passwords left out)
AuthenticatedUserOnly(username, password) == username = AdminUser

\* username == "admin@example.com" and password == "password"
Authenticated(username, password) ==
    username = AdminUser /\ password = AdminPassword

\* POST /api/connect
connect(data, log, dns_server, username, password) ==
    LET log1 == log_action(log, "INFO",
                    Msg("Attempting connection to {dns_server} with user {username}",
                        <<dns_server, username>>), username)
    IN  IF Authenticated(username, password)
        THEN Result(data,
                    log_action(log1, "INFO",
                        Msg("Connection and authentication successful (simulated).",
                            <<>>), username),
                    200, [zones |-> keys(data)])
        ELSE Result(data,
                    log_action(log1, "ERROR",
                        Msg("Connection failed: Invalid credentials (simulated).",
                            <<>>), username),
                    401, [error |-> "Invalid credentials"])

\* (the test with or for and)
RecordMatchesEither(record, record_type_filter, search_term) ==
    LET match_type == (record_type_filter = "All"
                       \/ record.record_type = record_type_filter)
        match_search == (search_term = <<>>
                         \/ contains(search_term, lower(record.hostname))
                         \/ contains(search_term, lower(record.value)))
    IN  match_type \/ match_search

\* the loop body's test of get_records, for one record
RecordMatches(record, record_type_filter, search_term) ==
    LET match_type == (record_type_filter = "All"
                       \/ record.record_type = record_type_filter)
        match_search == (search_term = <<>>
                         \/ contains(search_term, lower(record.hostname))
                         \/ contains(search_term, lower(record.value)))
    IN  match_type /\ match_search

\* the filtering loop of get_records: records that match, in stored order
RECURSIVE FilterRecords(_, _, _)
FilterRecords(records, record_type_filter, search_term) ==
    IF records = <<>> THEN <<>>
    ELSE LET rest == FilterRecords(Tail(records), record_type_filter, search_term)
         IN  IF RecordMatches(Head(records), record_type_filter, search_term)
             THEN <<Head(records)>> \o rest
             ELSE rest

\* GET /api/records/<zone_name>; search_term_arg is the query argument as
\* sent, which the handler lowers
get_records(data, log, zone_name, record_type_filter, search_term_arg) ==
    LET search_term == lower(search_term_arg)
    IN  IF ~HasZone(data, zone_name)
        THEN Result(data,
                    log_action(log, "WARNING",
                        Msg("Attempted to fetch records for non-existent zone: {zone_name}",
                            <<zone_name>>), Backend),
                    404, [error |-> "Zone not found"])
        ELSE LET filtered_records ==
                     FilterRecords(data[zone_name], record_type_filter, search_term)
             IN  Result(data,
                        log_action(log, "INFO",
                            Msg("Fetched {n} records for zone {zone_name} (filtered).",
                                <<str(Len(filtered_records)), zone_name>>), Backend),
                        200, [records |-> filtered_records])

\* (insert(0, new_record) for the append)
ListInsertFront(records, new_record) == <<new_record>> \o records

\* dns_data[zone_name].append(new_record)
ListAppend(records, new_record) == Append(records, new_record)

\* (the handler with the zone looked up before the fields are checked)
add_record_zone_first(data, log, zone_name, hostname, record_type, value) ==
    IF ~HasZone(data, zone_name)
    THEN Result(data, log, 404, [error |-> "Zone not found"])
    ELSE IF ~all(<<hostname, record_type, value>>)
    THEN Result(data, log, 400, [error |-> "Missing data for new record"])
    ELSE LET new_record == Rec(hostname, record_type, value)
         IN  Result([data EXCEPT ![zone_name] = ListAppend(@, new_record)],
                    log_action(log, "INFO",
                        Msg("Added record (simulated): {hostname} {record_type} {value} in {zone_name}",
                            <<hostname, record_type, value, zone_name>>), Backend),
                    201,
                    [message |-> "Record added successfully (simulated)",
                     record |-> new_record])

\* (the handler with dns_data.setdefault(zone_name, []).append(new_record)
\* for the zone test and the append)
add_record_setdefault(data, log, zone_name, hostname, record_type, value) ==
    IF ~all(<<hostname, record_type, value>>)
    THEN Result(data, log, 400, [error |-> "Missing data for new record"])
    ELSE LET new_record == Rec(hostname, record_type, value)
             records == IF HasZone(data, zone_name) THEN data[zone_name] ELSE <<>>
         IN  Result([z \in DOMAIN data \cup {zone_name} |->
                        IF z = zone_name THEN ListAppend(records, new_record)
                        ELSE data[z]],
                    log_action(log, "INFO",
                        Msg("Added record (simulated): {hostname} {record_type} {value} in {zone_name}",
                            <<hostname, record_type, value, zone_name>>), Backend),
                    201,
                    [message |-> "Record added successfully (simulated)",
                     record |-> new_record])

\* POST /api/records/<zone_name>
add_record(data, log, zone_name, hostname, record_type, value) ==
    IF ~all(<<hostname, record_type, value>>)
    THEN Result(data, log, 400, [error |-> "Missing data for new record"])
    ELSE IF ~HasZone(data, zone_name)
    THEN Result(data, log, 404, [error |-> "Zone not found"])
    ELSE LET new_record == Rec(hostname, record_type, value)
         IN  Result([data EXCEPT ![zone_name] = ListAppend(@, new_record)],
                    log_action(log, "INFO",
                        Msg("Added record (simulated): {hostname} {record_type} {value} in {zone_name}",
                            <<hostname, record_type, value, zone_name>>), Backend),
                    201,
                    [message |-> "Record added successfully (simulated)",
                     record |-> new_record])

\* (the test with the comparison of the values left out)
IsTripleNoValue(record, hostname, record_type, value) ==
    /\ record.hostname = hostname
    /\ record.record_type = record_type

\* the test of the update loops and of the delete comprehension: the record
\* carries the triple
IsTriple(record, hostname, record_type, value) ==
    /\ record.hostname = hostname
    /\ record.record_type = record_type
    /\ record.value = value

\* (the loop started at the second record)
FirstMatchFromSecond(records, hostname, record_type, old_value) ==
    IF \E i \in 2..Len(records) : IsTriple(records[i], hostname, record_type, old_value)
    THEN CHOOSE i \in 2..Len(records) :
            /\ IsTriple(records[i], hostname, record_type, old_value)
            /\ \A j \in 2..(i - 1) :
                   ~IsTriple(records[j], hostname, record_type, old_value)
    ELSE 0

\* the for loop of update_record and of bulk_update's update branch: the
\* index of the first record that carries the triple, 0 when there is none
FirstMatch(records, hostname, record_type, old_value) ==
    IF \E i \in 1..Len(records) : IsTriple(records[i], hostname, record_type, old_value)
    THEN CHOOSE i \in 1..Len(records) :
            /\ IsTriple(records[i], hostname, record_type, old_value)
            /\ \A j \in 1..(i - 1) :
                   ~IsTriple(records[j], hostname, record_type, old_value)
    ELSE 0

\* (the loop with the break left out: every record that carries the triple
\* of the record at index i gets the value)
SetValueNoBreak(records, i, new_value) ==
    [j \in 1..Len(records) |->
        IF records[j] = records[i]
        THEN [records[j] EXCEPT !.value = new_value]
        ELSE records[j]]

\* record['value'] = new_value on the record at index i
SetValue(records, i, new_value) ==
    [records EXCEPT ![i] = [@ EXCEPT !.value = new_value]]

\* (the handler with found = True left out of the loop: the record is changed
\* and the call answers that there is none)
update_record_found_unset(data, log, zone_name, hostname, record_type, old_value, new_value) ==
    IF ~all(<<hostname, record_type, old_value, new_value>>)
    THEN Result(data, log, 400, [error |-> "Missing data for record update"])
    ELSE IF ~HasZone(data, zone_name)
    THEN Result(data, log, 404, [error |-> "Zone not found"])
    ELSE LET i == FirstMatch(data[zone_name], hostname, record_type, old_value)
         IN  Result(IF i # 0
                    THEN [data EXCEPT ![zone_name] = SetValue(@, i, new_value)]
                    ELSE data,
                    log_action(log, "ERROR",
                        Msg("Record not found for update (simulated): {hostname} {record_type} {old_value} in {zone_name}",
                            <<hostname, record_type, old_value, zone_name>>),
                        Backend),
                    404, [error |-> "Record not found for update"])

\* PUT /api/records/<zone_name>
update_record(data, log, zone_name, hostname, record_type, old_value, new_value) ==
    IF ~all(<<hostname, record_type, old_value, new_value>>)
    THEN Result(data, log, 400, [error |-> "Missing data for record update"])
    ELSE IF ~HasZone(data, zone_name)
    THEN Result(data, log, 404, [error |-> "Zone not found"])
    ELSE LET i == FirstMatch(data[zone_name], hostname, record_type, old_value)
             found == i # 0
         IN  IF found
             THEN Result([data EXCEPT ![zone_name] = SetValue(@, i, new_value)],
                         log_action(log, "INFO",
                             Msg("Updated record (simulated): {hostname} {record_type} {old_value} -> {new_value} in {zone_name}",
                                 <<hostname, record_type, old_value, new_value, zone_name>>),
                             Backend),
                         200, [message |-> "Record updated successfully (simulated)"])
             ELSE Result(data,
                         log_action(log, "ERROR",
                             Msg("Record not found for update (simulated): {hostname} {record_type} {old_value} in {zone_name}",
                                 <<hostname, record_type, old_value, zone_name>>),
                             Backend),
                         404, [error |-> "Record not found for update"])

\* (the comprehension with the comparison of the values left out)
WithoutHostType(records, hostname, record_type, value) ==
    SelectSeq(records, LAMBDA r : ~(r.hostname = hostname
                                    /\ r.record_type = record_type))

\* (the test with <= for <)
LenNotIncreased(new_len, original_len) == new_len <= original_len

\* len(dns_data[zone_name]) < original_len
LenDecreased(new_len, original_len) == new_len < original_len

\* the list comprehension of delete_records: the records that do not carry
\* the triple, in order
WithoutTriple(records, hostname, record_type, value) ==
    SelectSeq(records, LAMBDA r : ~IsTriple(r, hostname, record_type, value))

\* the for loop of delete_records over what is left of the batch.  st holds
\* the zone's list, the log and the loop's locals; st.zones is the zone's
\* list, and st.tally deleted_count and len(failed_deletions), before each
\* item processed so far and after the last one.
RECURSIVE DeleteLoop(_, _, _)
DeleteLoop(st, zone_name, records_to_delete) ==
    IF records_to_delete = <<>> THEN st
    ELSE LET rec_data == Head(records_to_delete)
             hostname == rec_data.hostname
             record_type == rec_data.record_type
             value == rec_data.value
             original_len == Len(st.records)
             kept == WithoutTriple(st.records, hostname, record_type, value)
             next ==
               IF LenDecreased(Len(kept), original_len)
               THEN [st EXCEPT
                       !.records = kept,
                       !.zones = Append(@, kept),
                       !.deleted_count = @ + 1,
                       !.log = log_action(@, "INFO",
                           Msg("Deleted record (simulated): {hostname} {record_type} {value} in {zone_name}",
                               <<hostname, record_type, value, zone_name>>), Backend)]
               ELSE [st EXCEPT
                       !.records = kept,
                       !.zones = Append(@, kept),
                       !.failed_deletions = Append(@,
                           [record |-> rec_data,
                            error |-> "Record not found or failed to delete (simulated)"]),
                       !.log = log_action(@, "ERROR",
                           Msg("Failed to delete record (simulated): {hostname} {record_type} {value} in {zone_name}",
                               <<hostname, record_type, value, zone_name>>), Backend)]
         IN  DeleteLoop([next EXCEPT
                           !.tally = Append(@,
                               [deleted_count |-> next.deleted_count,
                                failed |-> Len(next.failed_deletions)])],
                        zone_name, Tail(records_to_delete))

\* DELETE /api/records/<zone_name>
delete_records(data, log, zone_name, records_to_delete) ==
    IF records_to_delete = <<>>
    THEN Result(data, log, 400, [error |-> "No records provided for deletion"])
    ELSE IF ~HasZone(data, zone_name)
    THEN Result(data, log, 404, [error |-> "Zone not found"])
    ELSE LET end == DeleteLoop([records |-> data[zone_name],
                                log |-> log,
                                deleted_count |-> 0,
                                failed_deletions |-> <<>>,
                                zones |-> <<data[zone_name]>>,
                                tally |-> <<[deleted_count |-> 0, failed |-> 0]>>],
                               zone_name, records_to_delete)
             locals == [zones |-> end.zones,
                        tally |-> end.tally,
                        deleted_count |-> end.deleted_count,
                        failed_deletions |-> end.failed_deletions]
             data1 == [data EXCEPT ![zone_name] = end.records]
         IN  IF end.failed_deletions # <<>>
             THEN LoopResult(data1, end.log, 202,
                      [message |-> Msg("Deleted {deleted_count} records, but some failed.",
                                       <<str(end.deleted_count)>>),
                       failed_deletions |-> end.failed_deletions],
                      locals)
             ELSE LoopResult(data1, end.log, 200,
                      [message |-> Msg("Successfully deleted {deleted_count} records (simulated)",
                                       <<str(end.deleted_count)>>)],
                      locals)

\* (insert(0, ...) for the append)
FailedChangeFront(failed_changes, change, error) ==
    <<[change |-> change, error |-> error]>> \o failed_changes

\* (the append left out)
FailedChangeDropped(failed_changes, change, error) == failed_changes

\* failed_changes.append({"change": change, "error": error})
FailedChange(failed_changes, change, error) ==
    Append(failed_changes, [change |-> change, error |-> error])

\* the for loop of bulk_update over what is left of the changes.  st.rolls
\* is what random.random() > 0.1 is going to give, in the order of the calls
\* (TRUE: the success branch); st.rolled counts the calls made.  st.tally is
\* success_count, len(failed_changes) and st.rolled before each change
\* processed so far and after the last one.
RECURSIVE BulkLoop(_, _, _)
BulkLoop(st, zone_name, changes) ==
    IF changes = <<>> THEN st
    ELSE LET change == Head(changes)
             hostname == change.hostname
             record_type == change.record_type
             new_value == change.new_value
             old_value == change.old_value
             i == FirstMatch(st.records, hostname, record_type, old_value)
             rolled == [st EXCEPT !.rolls = Tail(@), !.rolled = @ + 1]
             next ==
               IF ~all(<<hostname, record_type, new_value>>)
               THEN [st EXCEPT
                       !.failed_changes = FailedChange(@, change, "Missing data")]
               ELSE IF Head(st.rolls)
               THEN IF Truthy(old_value)
                    THEN IF i # 0
                         THEN [rolled EXCEPT
                                 !.records = SetValue(@, i, new_value),
                                 !.success_count = @ + 1,
                                 !.log = log_action(@, "INFO",
                                     Msg("Bulk updated record (simulated): {hostname} {record_type} {old_value} -> {new_value} in {zone_name}",
                                         <<hostname, record_type, old_value, new_value, zone_name>>),
                                     Backend)]
                         ELSE [rolled EXCEPT
                                 !.failed_changes = FailedChange(@, change,
                                     "Record not found for update (simulated)"),
                                 !.log = log_action(@, "ERROR",
                                     Msg("Bulk update failed (record not found): {hostname} {record_type} {old_value} -> {new_value} in {zone_name}",
                                         <<hostname, record_type, old_value, new_value, zone_name>>),
                                     Backend)]
                    ELSE [rolled EXCEPT
                            !.records = Append(@, Rec(hostname, record_type, new_value)),
                            !.success_count = @ + 1,
                            !.log = log_action(@, "INFO",
                                Msg("Bulk added record (simulated): {hostname} {record_type} {new_value} in {zone_name}",
                                    <<hostname, record_type, new_value, zone_name>>),
                                Backend)]
               ELSE [rolled EXCEPT
                       !.failed_changes = FailedChange(@, change, "Simulated failure"),
                       !.log = log_action(@, "ERROR",
                           Msg("Bulk update failed (simulated): {hostname} {record_type} in {zone_name}",
                               <<hostname, record_type, zone_name>>), Backend)]
         IN  BulkLoop([next EXCEPT
                         !.zones = Append(@, next.records),
                         !.tally = Append(@,
                             [success_count |-> next.success_count,
                              failed |-> Len(next.failed_changes),
                              rolled |-> next.rolled])],
                      zone_name, Tail(changes))

\* POST /api/bulk_update/<zone_name>
bulk_update(data, log, zone_name, changes, rolls) ==
    IF changes = <<>>
    THEN Result(data, log, 400, [error |-> "No changes provided for bulk update"])
    ELSE IF ~HasZone(data, zone_name)
    THEN Result(data, log, 404, [error |-> "Zone not found"])
    ELSE LET end == BulkLoop([records |-> data[zone_name],
                              log |-> log,
                              success_count |-> 0,
                              failed_changes |-> <<>>,
                              rolls |-> rolls,
                              rolled |-> 0,
                              zones |-> <<data[zone_name]>>,
                              tally |-> <<[success_count |-> 0, failed |-> 0,
                                           rolled |-> 0]>>],
                             zone_name, changes)
             locals == [zones |-> end.zones,
                        tally |-> end.tally,
                        success_count |-> end.success_count,
                        failed_changes |-> end.failed_changes,
                        rolled |-> end.rolled]
             data1 == [data EXCEPT ![zone_name] = end.records]
         IN  IF end.failed_changes # <<>>
             THEN LoopResult(data1, end.log, 200,
                      [message |-> Msg("Completed bulk update. {success_count} succeeded, {len(failed_changes)} failed.",
                                       <<str(end.success_count),
                                         str(Len(end.failed_changes))>>),
                       failed_changes |-> end.failed_changes],
                      locals)
             ELSE LoopResult(data1, end.log, 200,
                      [message |-> Msg("All {success_count} bulk changes applied successfully (simulated)",
                                       <<str(end.success_count)>>)],
                      locals)

\* (the handler with the list taken before the entry is logged)
get_audit_logs_before(data, log) ==
    LET log1 == log_action(log, "INFO", Msg("Audit logs requested.", <<>>), Backend)
    IN  Result(data, log1, 200, [logs |-> log])

\* GET /api/audit_logs
get_audit_logs(data, log) ==
    LET log1 == log_action(log, "INFO", Msg("Audit logs requested.", <<>>), Backend)
    IN  Result(data, log1, 200, [logs |-> log1])

(***************************************************************************)
(* The state: the two module-level objects of app.py; a record of the last  *)
(* call (what was asked, what was answered, and the store and the log as   *)
(* they were when it began), for handlers run one at a time; and the       *)
(* position and the locals of two server threads, for two handlers run at  *)
(* once.                                                                   *)
(***************************************************************************)
VARIABLES
    dns_data,      \* zone name -> the zone's list of records
    audit_log,     \* the list of entries
    request,       \* the last call: [op, zone_name, args, again, zone_before]
    response,      \* its answer: [status, body]
    locals,        \* the locals of its loop, for delete_records and bulk_update
    dns_before,    \* dns_data when it began
    log_before,    \* audit_log when it began
    add_t,         \* a thread of the server in add_record: where it is, its locals
    del_t          \* a thread of the server in delete_records, likewise

call_vars == <<request, response, locals, dns_before, log_before>>
thread_vars == <<add_t, del_t>>
vars == <<dns_data, audit_log, call_vars, thread_vars>>

Init ==
    /\ dns_data = [z \in {SeedZones[i] : i \in 1..Len(SeedZones)} |-> SeedRecords(z)]
    /\ audit_log = <<>>
    /\ request = [op |-> "none", zone_name |-> "", args |-> <<>>, again |-> FALSE,
                 zone_before |-> <<>>]
    /\ response = [status |-> 0, body |-> <<>>]
    /\ locals = NoLocals
    /\ dns_before = dns_data
    /\ log_before = audit_log
    /\ add_t = [pc |-> "idle", req |-> <<>>, ref |-> "none", obj |-> <<>>,
                status |-> 0]
    /\ del_t = [pc |-> "idle", zone_name |-> "", records_to_delete |-> <<>>,
                rest |-> <<>>, original_len |-> 0, idx |-> 0, kept |-> <<>>,
                deleted |-> FALSE, deleted_count |-> 0,
                failed_deletions |-> <<>>, status |-> 0]

(***************************************************************************)
(* The requests a client sends.                                            *)
(***************************************************************************)
\* A request names a zone of the seed or a name that is no zone.  The seed
\* holds www A 192.168.1.100 in example.com, and no www A 192.168.1.101.
NoZone == "nozone.example"

\* add_record requests: <<zone_name, hostname, record_type, value>>
AddInputs ==
    {<<"example.com", "www", "A", "192.168.1.100">>,
     <<"example.com", "www", "A", "192.168.1.101">>,
     <<"example.com", None, "A", "192.168.1.100">>,
     <<NoZone, "www", "A", "192.168.1.101">>,
     <<NoZone, "www", "A", "">>}

\* update_record requests:
\* <<zone_name, hostname, record_type, old_value, new_value>>
UpdateInputs ==
    {<<"example.com", "www", "A", "192.168.1.100", "192.168.1.101">>,
     <<"example.com", "www", "A", "192.168.1.101", "192.168.1.100">>,
     <<"example.com", "www", "A", None, "192.168.1.101">>,
     <<NoZone, "www", "A", "192.168.1.100", "192.168.1.101">>,
     <<NoZone, "www", "A", "192.168.1.100", "">>}

SeqsUpTo(S, n) == UNION {[1..k -> S] : k \in 0..n}

\* delete_records requests: <<zone_name, records>>
DeleteInputs ==
    {<<"example.com", b>> :
        b \in SeqsUpTo({Rec("www", "A", "192.168.1.100"),
                        Rec("www", "A", "192.168.1.101")}, MaxBatch)}
    \cup {<<NoZone, <<>> >>, <<NoZone, <<Rec("www", "A", "192.168.1.100")>> >>}

Change(h, t, n, o) ==
    [hostname |-> h, record_type |-> t, new_value |-> n, old_value |-> o]

\* one change of a bulk_update request, with what the oracle gives when the
\* change comes to roll it (TRUE: the success branch): an add, an update,
\* and a change with no hostname, which rolls nothing
PlannedChanges ==
    {[change |-> Change("www", "A", "192.168.1.101", None), roll |-> TRUE],
     [change |-> Change("www", "A", "192.168.1.101", "192.168.1.100"),
      roll |-> TRUE],
     [change |-> Change("www", "A", "192.168.1.101", "192.168.1.100"),
      roll |-> FALSE],
     [change |-> Change(None, "A", "192.168.1.101", None), roll |-> TRUE]}

\* bulk_update requests: <<zone_name, planned changes>>
BulkInputs ==
    {<<"example.com", plan>> : plan \in SeqsUpTo(PlannedChanges, MaxBatch)}
    \cup {<<NoZone, <<>> >>,
          <<NoZone, <<[change |-> Change("www", "A", "192.168.1.101", None),
                       roll |-> TRUE]>> >>}

ChangesOf(plan) == [i \in 1..Len(plan) |-> plan[i].change]

WellFormed(change) ==
    all(<<change.hostname, change.record_type, change.new_value>>)

\* the oracle's answers, one for each change that rolls
RECURSIVE RollsOf(_)
RollsOf(plan) ==
    IF plan = <<>> THEN <<>>
    ELSE IF WellFormed(Head(plan).change)
    THEN <<Head(plan).roll>> \o RollsOf(Tail(plan))
    ELSE RollsOf(Tail(plan))

\* get_records requests: <<zone_name, record_type, search_term>>
QueryInputs ==
    {<<"example.com", "All", "">>,
     <<"example.com", "A", "WWW">>,
     <<"example.com", "CNAME", "WWW">>,
     <<NoZone, "All", "">>}

\* connect requests: <<dnsServer, username, password>>
CredentialInputs ==
    {<<"dc1", AdminUser, AdminPassword>>,
     <<"dc1", AdminUser, "wrong">>,
     <<"dc1", "guest@example.com", AdminPassword>>}

(***************************************************************************)
(* The calls.  Flask's handlers run to completion here, one request at a   *)
(* time.                                                                   *)
(***************************************************************************)
\* the previous call was a successful update_record with the same arguments;
\* request.zone_before is then the zone's list before that previous call
Again(op, zone_name, args) ==
    /\ op = "update_record"
    /\ request.op = "update_record"
    /\ request.zone_name = zone_name
    /\ request.args = args
    /\ response.status = 200

Call(op, zone_name, args, r) ==
    /\ Len(audit_log) < MaxLog
    /\ dns_data' = r.data
    /\ audit_log' = r.log
    /\ request' = [op |-> op, zone_name |-> zone_name, args |-> args,
                   again |-> Again(op, zone_name, args),
                   zone_before |-> IF Again(op, zone_name, args)
                                   THEN dns_before[zone_name] ELSE <<>>]
    /\ response' = [status |-> r.status, body |-> r.body]
    /\ locals' = r.locals
    /\ dns_before' = dns_data
    /\ log_before' = audit_log
    /\ UNCHANGED thread_vars

Connect ==
    \E c \in CredentialInputs :
        Call("connect", "", c, connect(dns_data, audit_log, c[1], c[2], c[3]))

GetRecords ==
    \E q \in QueryInputs :
        Call("get_records", q[1], Tail(q),
             get_records(dns_data, audit_log, q[1], q[2], q[3]))

AddRecord ==
    \E a \in AddInputs :
        Call("add_record", a[1], Tail(a),
             add_record(dns_data, audit_log, a[1], a[2], a[3], a[4]))

UpdateRecord ==
    \E a \in UpdateInputs :
        Call("update_record", a[1], Tail(a),
             update_record(dns_data, audit_log, a[1], a[2], a[3], a[4], a[5]))

DeleteRecords ==
    \E d \in DeleteInputs :
        Call("delete_records", d[1], d[2],
             delete_records(dns_data, audit_log, d[1], d[2]))

BulkUpdate ==
    \E b \in BulkInputs :
        Call("bulk_update", b[1],
             [changes |-> ChangesOf(b[2]), rolls |-> RollsOf(b[2])],
             bulk_update(dns_data, audit_log, b[1], ChangesOf(b[2]), RollsOf(b[2])))

GetAuditLogs ==
    Call("get_audit_logs", "", <<>>, get_audit_logs(dns_data, audit_log))

Next ==
    \/ Connect
    \/ GetRecords
    \/ AddRecord
    \/ UpdateRecord
    \/ DeleteRecords
    \/ BulkUpdate
    \/ GetAuditLogs

Spec == Init /\ [][Next]_vars

(***************************************************************************)
(* Two requests at once.  FlaskThread.run starts Flask's development       *)
(* server, which serves each request in a thread of its own; the handlers  *)
(* take no lock.  The interpreter may switch threads between any two       *)
(* bytecodes, so a step here is one read or one write of a shared object:  *)
(* a subscript dns_data[zone_name], a list.append, one turn of the list    *)
(* comprehension's iterator, the store of the new list.  One thread serves *)
(* an add_record, the other a delete_records.                              *)
(*                                                                         *)
(* dns_data[z] is the list object the dict holds for z.  add_t.ref tells   *)
(* which list object the add thread's subscript gave it: "live", the one   *)
(* the dict still holds, or "stale", one the dict held when the thread     *)
(* read it and that delete_records has replaced since, whose content is    *)
(* add_t.obj.                                                              *)
(***************************************************************************)
\* add_record, lines 121-129: the request is read and checked
AddStart ==
    /\ add_t.pc = "idle"
    /\ \E a \in AddInputs :
         add_t' = IF ~all(<<a[2], a[3], a[4]>>)
                  THEN [add_t EXCEPT !.pc = "done", !.req = a, !.status = 400]
                  ELSE IF ~HasZone(dns_data, a[1])
                  THEN [add_t EXCEPT !.pc = "done", !.req = a, !.status = 404]
                  ELSE [add_t EXCEPT !.pc = "load", !.req = a]
    /\ UNCHANGED <<dns_data, audit_log, del_t, call_vars>>

\* line 134, dns_data[zone_name]: after the sleep, the list object is read
AddLoad ==
    /\ add_t.pc = "load"
    /\ add_t' = [add_t EXCEPT !.pc = "append", !.ref = "live"]
    /\ UNCHANGED <<dns_data, audit_log, del_t, call_vars>>

\* line 134, .append(new_record), on the list object read
AddAppend ==
    /\ add_t.pc = "append"
    /\ LET new_record == Rec(add_t.req[2], add_t.req[3], add_t.req[4])
       IN  IF add_t.ref = "live"
           THEN /\ dns_data' = [dns_data EXCEPT ![add_t.req[1]] =
                                        ListAppend(@, new_record)]
                /\ add_t' = [add_t EXCEPT !.pc = "log"]
           ELSE /\ add_t' = [add_t EXCEPT !.pc = "log",
                                        !.obj = ListAppend(@, new_record)]
                /\ UNCHANGED dns_data
    /\ UNCHANGED <<audit_log, del_t, call_vars>>

\* lines 135-136: the entry is logged and 201 returned
AddLog ==
    /\ add_t.pc = "log"
    /\ audit_log' = log_action(audit_log, "INFO",
           Msg("Added record (simulated): {hostname} {record_type} {value} in {zone_name}",
               <<add_t.req[2], add_t.req[3], add_t.req[4], add_t.req[1]>>), Backend)
    /\ add_t' = [add_t EXCEPT !.pc = "done", !.status = 201]
    /\ UNCHANGED <<dns_data, del_t, call_vars>>

\* delete_records, lines 176-186: the request is read and checked
DelStart ==
    /\ del_t.pc = "idle"
    /\ \E d \in DeleteInputs :
         del_t' = IF d[2] = <<>>
                  THEN [del_t EXCEPT !.pc = "done", !.zone_name = d[1], !.status = 400]
                  ELSE IF ~HasZone(dns_data, d[1])
                  THEN [del_t EXCEPT !.pc = "done", !.zone_name = d[1],
                                     !.records_to_delete = d[2], !.status = 404]
                  ELSE [del_t EXCEPT !.pc = "len", !.zone_name = d[1],
                                     !.records_to_delete = d[2], !.rest = d[2]]
    /\ UNCHANGED <<dns_data, audit_log, add_t, call_vars>>

\* line 195, for the item Head(del_t.rest): original_len is read
DelLen ==
    /\ del_t.pc = "len"
    /\ del_t' = [del_t EXCEPT !.pc = "iter",
                              !.original_len = Len(dns_data[del_t.zone_name]),
                              !.idx = 0, !.kept = <<>>]
    /\ UNCHANGED <<dns_data, audit_log, add_t, call_vars>>

\* lines 196-199, one turn of the comprehension: the iterator gives the next
\* record of the list the dict holds, or finds the list at its end
DelIter ==
    /\ del_t.pc = "iter"
    /\ LET records == dns_data[del_t.zone_name]
           rec_data == Head(del_t.rest)
       IN  IF del_t.idx < Len(records)
           THEN LET r == records[del_t.idx + 1]
                IN  del_t' = [del_t EXCEPT
                        !.idx = @ + 1,
                        !.kept = IF IsTriple(r, rec_data.hostname,
                                             rec_data.record_type, rec_data.value)
                                 THEN @ ELSE Append(@, r)]
           ELSE del_t' = [del_t EXCEPT !.pc = "store"]
    /\ UNCHANGED <<dns_data, audit_log, add_t, call_vars>>

\* line 196, dns_data[zone_name] = [...]: the dict holds the new list; a
\* thread that read the old list object keeps the old one
DelStore ==
    /\ del_t.pc = "store"
    /\ dns_data' = [dns_data EXCEPT ![del_t.zone_name] = del_t.kept]
    /\ del_t' = [del_t EXCEPT !.pc = "cmp"]
    /\ add_t' = IF add_t.ref = "live" /\ add_t.req[1] = del_t.zone_name
                THEN [add_t EXCEPT !.ref = "stale",
                                   !.obj = dns_data[del_t.zone_name]]
                ELSE add_t
    /\ UNCHANGED <<audit_log, call_vars>>

\* lines 200-201 and 204: the lengths are compared, the item counted
DelCmp ==
    /\ del_t.pc = "cmp"
    /\ IF LenDecreased(Len(dns_data[del_t.zone_name]), del_t.original_len)
       THEN del_t' = [del_t EXCEPT !.pc = "log", !.deleted = TRUE,
                                   !.deleted_count = @ + 1]
       ELSE del_t' = [del_t EXCEPT !.pc = "log", !.deleted = FALSE,
                         !.failed_deletions = Append(@,
                             [record |-> Head(del_t.rest),
                              error |-> "Record not found or failed to delete (simulated)"])]
    /\ UNCHANGED <<dns_data, audit_log, add_t, call_vars>>

\* lines 202 and 205, then the next item or lines 207-210
DelLog ==
    /\ del_t.pc = "log"
    /\ LET rec_data == Head(del_t.rest)
           fields == <<rec_data.hostname, rec_data.record_type, rec_data.value,
                       del_t.zone_name>>
       IN  audit_log' =
             IF del_t.deleted
             THEN log_action(audit_log, "INFO",
                      Msg("Deleted record (simulated): {hostname} {record_type} {value} in {zone_name}",
                          fields), Backend)
             ELSE log_action(audit_log, "ERROR",
                      Msg("Failed to delete record (simulated): {hostname} {record_type} {value} in {zone_name}",
                          fields), Backend)
    /\ del_t' = IF Tail(del_t.rest) # <<>>
                THEN [del_t EXCEPT !.pc = "len", !.rest = Tail(@)]
                ELSE [del_t EXCEPT !.pc = "done", !.rest = <<>>,
                         !.status = IF del_t.failed_deletions # <<>> THEN 202 ELSE 200]
    /\ UNCHANGED <<dns_data, add_t, call_vars>>

ThreadsNext ==
    \/ AddStart
    \/ AddLoad
    \/ AddAppend
    \/ AddLog
    \/ DelStart
    \/ DelLen
    \/ DelIter
    \/ DelStore
    \/ DelCmp
    \/ DelLog

ThreadsSpec == Init /\ [][ThreadsNext]_vars

(***************************************************************************)
(* What the properties are stated with.                                    *)
(***************************************************************************)
\* the record has the hostname, record type and value of the triple t
Carries(r, t) ==
    r.hostname = t.hostname /\ r.record_type = t.record_type /\ r.value = t.value

\* how many records of the sequence carry the triple
Count(records, t) == Cardinality({i \in 1..Len(records) : Carries(records[i], t)})

IsPrefix(s, t) == Len(s) <= Len(t) /\ \A i \in 1..Len(s) : t[i] = s[i]

\* the entries the last call appended
Appended == Len(audit_log) - Len(log_before)

\* an unfiltered get_records on the zone: what it returns
Listing(data, log, zone_name) == get_records(data, log, zone_name, "All", "").body.records

\* the last call was a delete_records that ran its loop, on zone Z
DeleteRan == request.op = "delete_records" /\ response.status \in {200, 202}

\* the last call was a bulk_update that ran its loop
BulkRan ==
    /\ request.op = "bulk_update"
    /\ request.args.changes # <<>>
    /\ HasZone(dns_before, request.zone_name)

\* locals.zones runs from the zone as the call found it to the zone as the
\* call left it, with one list more than the batch has items
TraceFits(n) ==
    /\ Len(locals.zones) = n + 1
    /\ locals.zones[1] = dns_before[request.zone_name]
    /\ locals.zones[n + 1] = dns_data[request.zone_name]

(***************************************************************************)
(* C1.  Every add_record, update_record, delete_records and bulk_update    *)
(* call appends as many audit entries as it has sub-operations, whatever   *)
(* its outcome: one for an add or an update, one for each item of a batch. *)
(***************************************************************************)
\* C1: the call appended one entry for each of its sub-operations
C1_OneEntryPerSubOperation ==
    /\ request.op \in {"add_record", "update_record"} => Appended = 1
    /\ request.op = "delete_records" => Appended = Len(request.args)
    /\ request.op = "bulk_update" => Appended = Len(request.args.changes)

(***************************************************************************)
(* C2.  The count a delete_records call reports is the number of records   *)
(* the call removed from the zone: the zone's length before the call minus *)
(* its length after.                                                       *)
(***************************************************************************)
\* C2: the count in the response is the number of records removed
C2_DeletedCountIsRemoved ==
    DeleteRan =>
        response.body.message.fields[1] =
            str(Len(dns_before[request.zone_name]) - Len(dns_data[request.zone_name]))

(***************************************************************************)
(* C3.  With an add_record and a delete_records on the same zone handled   *)
(* at once, in whatever order their steps fall, a record whose add         *)
(* answered 201 and whose triple the batch does not name is in the zone    *)
(* when both have answered.                                                *)
(***************************************************************************)
\* C3: when both threads are done, the record added with 201 is in the zone
C3_NoLostUpdate ==
    LET added == Rec(add_t.req[2], add_t.req[3], add_t.req[4])
    IN  ( /\ add_t.pc = "done"
          /\ del_t.pc = "done"
          /\ add_t.status = 201
          /\ del_t.zone_name = add_t.req[1]
          /\ \A i \in 1..Len(del_t.records_to_delete) :
                 ~Carries(added, del_t.records_to_delete[i]) )
        => Count(dns_data[add_t.req[1]], added) >= 1

(***************************************************************************)
(* C4.  An update_record that succeeded, with old_value different from     *)
(* new_value, and is repeated at once with the same arguments answers 404  *)
(* "Record not found for update" and leaves the zone as it is.             *)
(*   As claimed, for every zone content:                                   *)
(*     C4_RepeatedUpdateNotFound                                           *)
(*   As amended, for a zone that held exactly one record with the triple   *)
(*   (hostname, record_type, old_value) before the first of the two calls: *)
(*     C4_RepeatedUpdateNotFoundWhenSingle                                 *)
(***************************************************************************)
C4_Repeated ==
    /\ request.op = "update_record"
    /\ request.again
    /\ request.args[3] # request.args[4]

C4_NotFoundAndUnchanged ==
    /\ response.status = 404
    /\ response.body = [error |-> "Record not found for update"]
    /\ dns_data = dns_before

\* C4 as claimed: the repeated update answers 404 and changes nothing,
\* whatever the zone held
C4_RepeatedUpdateNotFound == C4_Repeated => C4_NotFoundAndUnchanged

C4_SingleBefore ==
    Count(request.zone_before,
          Rec(request.args[1], request.args[2], request.args[3])) = 1

\* C4 as amended: the repeated update answers 404 and changes nothing when
\* the zone held the triple once before the first update
C4_RepeatedUpdateNotFoundWhenSingle ==
    (C4_Repeated /\ C4_SingleBefore) => C4_NotFoundAndUnchanged

\* C4: such a repeated update has answered 404
C4_Witness == C4_Repeated /\ C4_SingleBefore /\ response.status = 404

(***************************************************************************)
(* C5.  With the oracle always on the success branch, a bulk_update on an  *)
(* existing zone, with a non-empty list of changes that each carry a       *)
(* hostname, a record type and a new value, reports as many successes as   *)
(* there are changes and no failed change.                                 *)
(*   As claimed: C5_AllChangesSucceed                                      *)
(*   As amended, when moreover every change that carries an old_value      *)
(*   finds a record with (hostname, record_type, old_value) in the zone as *)
(*   it is when the change is processed: C5_AllChangesSucceedWhenFound     *)
(***************************************************************************)
C5_WellFormedSuccessRolls ==
    /\ BulkRan
    /\ \A i \in 1..Len(request.args.changes) :
           /\ request.args.changes[i].hostname \notin {None, ""}
           /\ request.args.changes[i].record_type \notin {None, ""}
           /\ request.args.changes[i].new_value \notin {None, ""}
    /\ \A i \in 1..Len(request.args.rolls) : request.args.rolls[i]

C5_ReportsAll ==
    /\ response.status = 200
    /\ response.body.message.fields[1] = str(Len(request.args.changes))
    /\ "failed_changes" \notin DOMAIN response.body
    /\ locals.success_count = Len(request.args.changes)
    /\ locals.failed_changes = <<>>

\* C5 as claimed: on the success branch every well-formed change succeeds
C5_AllChangesSucceed == C5_WellFormedSuccessRolls => C5_ReportsAll

C5_EveryOldValueFound ==
    /\ TraceFits(Len(request.args.changes))
    /\ \A i \in 1..Len(request.args.changes) :
         LET c == request.args.changes[i]
         IN  c.old_value \notin {None, ""} =>
                 Count(locals.zones[i], Rec(c.hostname, c.record_type, c.old_value)) >= 1

\* C5 as amended: on the success branch every well-formed change succeeds
\* when each old_value given is found
C5_AllChangesSucceedWhenFound ==
    (C5_WellFormedSuccessRolls /\ C5_EveryOldValueFound) => C5_ReportsAll

\* C5: a batch of an update that finds its record and an add has succeeded
C5_Witness ==
    /\ C5_WellFormedSuccessRolls
    /\ C5_EveryOldValueFound
    /\ Len(request.args.changes) >= 2
    /\ \E i \in 1..Len(request.args.changes) :
           request.args.changes[i].old_value \notin {None, ""}
    /\ \E i \in 1..Len(request.args.changes) :
           request.args.changes[i].old_value = None

(***************************************************************************)
(* C6.  After an add_record that answered 201, an unfiltered get_records   *)
(* of the zone returns what it returned before the add followed by the new *)
(* record: one occurrence more of the record's triple, the new one last,   *)
(* the earlier records as they were and in the same order.                 *)
(***************************************************************************)
C6_Added == request.op = "add_record" /\ response.status = 201

\* C6: the listing after a successful add is the listing before it with the
\* new record appended
C6_AddThenList ==
    C6_Added =>
        LET R == Rec(request.args[1], request.args[2], request.args[3])
            before == Listing(dns_before, log_before, request.zone_name)
            after == Listing(dns_data, audit_log, request.zone_name)
        IN  /\ Count(after, R) = Count(before, R) + 1
            /\ Len(after) = Len(before) + 1
            /\ after[Len(after)] = R
            /\ \A i \in 1..Len(before) : after[i] = before[i]

\* C6: a record was added whose triple the zone already held
C6_Witness ==
    /\ C6_Added
    /\ Count(dns_before[request.zone_name],
             Rec(request.args[1], request.args[2], request.args[3])) >= 1

(***************************************************************************)
(* C7.  A delete_records on an existing zone with a non-empty batch        *)
(* answers 202, with failed_deletions, exactly when some item of the batch *)
(* removed nothing from the zone, and 200 exactly when every item removed  *)
(* a record or more.                                                       *)
(***************************************************************************)
C7_RemovedNothing(i) == Len(locals.zones[i + 1]) = Len(locals.zones[i])

\* C7: 202 iff some item removed nothing, 200 iff every item removed a record
C7_PartialIffSomeItemRemovedNothing ==
    ( /\ request.op = "delete_records"
      /\ request.args # <<>>
      /\ HasZone(dns_before, request.zone_name) )
    => LET n == Len(request.args)
       IN  /\ TraceFits(n)
           /\ response.status \in {200, 202}
           /\ response.status = 202 <=> \E i \in 1..n : C7_RemovedNothing(i)
           /\ response.status = 200 <=> \A i \in 1..n : ~C7_RemovedNothing(i)
           /\ response.status = 202 <=> "failed_deletions" \in DOMAIN response.body
           /\ response.status = 202 => response.body.failed_deletions # <<>>

\* C7: a batch was answered 202 of which an item removed a record
C7_Witness ==
    /\ request.op = "delete_records"
    /\ response.status = 202
    /\ locals.deleted_count >= 1

(***************************************************************************)
(* C8.  An item of a delete_records batch whose triple no record of the    *)
(* zone carries when the item is processed is listed in failed_deletions,  *)
(* and processing it leaves the zone's sequence of records as it was.      *)
(***************************************************************************)
C8_NoMatch(i) == Count(locals.zones[i], request.args[i]) = 0

\* C8: an item that matches no record is in failed_deletions and leaves the
\* zone's list as it was
C8_UnmatchedItemFailsAndChangesNothing ==
    DeleteRan =>
        /\ TraceFits(Len(request.args))
        /\ \A i \in 1..Len(request.args) :
             C8_NoMatch(i) =>
                 /\ locals.zones[i + 1] = locals.zones[i]
                 /\ "failed_deletions" \in DOMAIN response.body
                 /\ \E k \in 1..Len(response.body.failed_deletions) :
                        response.body.failed_deletions[k].record = request.args[i]
        /\ (\A i \in 1..Len(request.args) : C8_NoMatch(i)) => dns_data = dns_before

\* C8: an item matched no record, in a zone that held an added record
C8_Witness ==
    /\ DeleteRan
    /\ \E i \in 1..Len(request.args) : C8_NoMatch(i)
    /\ Len(dns_before[request.zone_name]) >= 6

(***************************************************************************)
(* C9.  The audit log is append-only: after every call the log as it was   *)
(* before the call is a prefix of the log.                                 *)
(***************************************************************************)
\* C9: the log before the call is a prefix of the log after it
C9_LogAppendOnly == IsPrefix(log_before, audit_log)

\* C9: a call appended two entries or more to a log that held some
C9_Witness == Len(log_before) >= 1 /\ Appended >= 2

(***************************************************************************)
(* C10.  A get_audit_logs call appends one INFO entry, "Audit logs         *)
(* requested.", returns the whole log in order, that entry last, and       *)
(* leaves the zone store as it is.                                         *)
(***************************************************************************)
\* C10: get_audit_logs appends its own entry and returns the log with it
C10_ReadLogsItself ==
    request.op = "get_audit_logs" =>
        /\ audit_log = Append(log_before,
               [level |-> "INFO", user |-> "Backend",
                message |-> [text |-> "Audit logs requested.", fields |-> <<>>]])
        /\ response.status = 200
        /\ response.body.logs = audit_log
        /\ response.body.logs[Len(response.body.logs)].message.text
               = "Audit logs requested."
        /\ dns_data = dns_before

\* C10: the log was read after calls that changed the store
C10_Witness ==
    /\ request.op = "get_audit_logs"
    /\ Len(response.body.logs) >= 3
    /\ dns_data # [z \in DOMAIN dns_data |-> SeedRecords(z)]

(***************************************************************************)
(* C11.  connect answers 200 with the zone list, every key of the store,   *)
(* exactly when the username and the password are the one accepted pair.   *)
(* For any other credentials it answers 401 with no zone list, appends the *)
(* INFO entry of the attempt and then one ERROR entry, both under the      *)
(* username supplied, and leaves the zone store as it is.                  *)
(***************************************************************************)
C11_Accepted ==
    request.args[2] = "admin@example.com" /\ request.args[3] = "password"

\* C11: the zone list is returned iff the credentials are the accepted
\* pair; otherwise 401, the attempt's INFO entry then one ERROR entry under
\* the supplied username, and the store unchanged
C11_ZonesIffCredentials ==
    request.op = "connect" =>
        /\ (response.status = 200 /\ "zones" \in DOMAIN response.body)
               <=> C11_Accepted
        /\ C11_Accepted =>
               /\ {response.body.zones[i] : i \in 1..Len(response.body.zones)}
                      = DOMAIN dns_data
               /\ Len(response.body.zones) = Cardinality(DOMAIN dns_data)
        /\ ~C11_Accepted =>
               /\ response.status = 401
               /\ "zones" \notin DOMAIN response.body
               /\ Appended = 2
               /\ IsPrefix(log_before, audit_log)
               /\ audit_log[Len(log_before) + 1].level = "INFO"
               /\ audit_log[Len(log_before) + 1].user = request.args[2]
               /\ audit_log[Len(log_before) + 2].level = "ERROR"
               /\ audit_log[Len(log_before) + 2].user = request.args[2]
               /\ Cardinality({i \in (Len(log_before) + 1)..Len(audit_log) :
                                  audit_log[i].level = "ERROR"}) = 1
               /\ dns_data = dns_before

\* C11: the accepted username with a wrong password was answered 401, on a
\* store that calls have changed
C11_Witness ==
    /\ request.op = "connect"
    /\ request.args[2] = "admin@example.com"
    /\ request.args[3] # "password"
    /\ response.status = 401
    /\ dns_data # [z \in DOMAIN dns_data |-> SeedRecords(z)]

(***************************************************************************)
(* C12.  A call that ends in a validation error (400: a field missing in   *)
(* add_record or update_record, an empty batch in delete_records or        *)
(* bulk_update), in zone not found (404) or in record not found (404)      *)
(* leaves the whole zone store as it was: the same zones, each with the    *)
(* same sequence of records.                                               *)
(***************************************************************************)
C12_EndedInError ==
    /\ request.op \in {"get_records", "add_record", "update_record",
                       "delete_records", "bulk_update"}
    /\ response.status \in {400, 404}

\* C12: a call answered 400 or 404 leaves every zone's list as it was
C12_ErrorLeavesStoreUnchanged ==
    C12_EndedInError =>
        /\ DOMAIN dns_data = DOMAIN dns_before
        /\ \A z \in DOMAIN dns_before : dns_data[z] = dns_before[z]

\* C12: an update_record was answered record not found in a zone that holds
\* a record with its hostname and record type and another value
C12_Witness ==
    /\ request.op = "update_record"
    /\ response.status = 404
    /\ response.body = [error |-> "Record not found for update"]
    /\ \E i \in 1..Len(dns_before[request.zone_name]) :
           /\ dns_before[request.zone_name][i].hostname = request.args[1]
           /\ dns_before[request.zone_name][i].record_type = request.args[2]
           /\ dns_before[request.zone_name][i].value # request.args[3]

(***************************************************************************)
(* C13.  An update_record that answered 200 changed one record and no      *)
(* other: the first record of the zone, in stored order, that carried      *)
(* (hostname, record_type, old_value) has the value new_value and the      *)
(* hostname and record type it had; the zone has the length it had; every  *)
(* other record, a later record with the same triple included, is as it    *)
(* was and where it was.                                                   *)
(***************************************************************************)
C13_Updated == request.op = "update_record" /\ response.status = 200

\* C13: a successful update_record sets the value of the first record that
\* carries the triple and changes nothing else of the zone
C13_UpdatesFirstMatchOnly ==
    C13_Updated =>
        LET before == dns_before[request.zone_name]
            after == dns_data[request.zone_name]
            old == Rec(request.args[1], request.args[2], request.args[3])
        IN  /\ Len(after) = Len(before)
            /\ \E i \in 1..Len(before) :
                  /\ Carries(before[i], old)
                  /\ \A j \in 1..(i - 1) : ~Carries(before[j], old)
                  /\ after[i].value = request.args[4]
                  /\ after[i].hostname = before[i].hostname
                  /\ after[i].record_type = before[i].record_type
                  /\ DOMAIN after[i] = DOMAIN before[i]
                  /\ \A j \in 1..Len(before) : j # i => after[j] = before[j]

\* C13: a record was updated in a zone that held its triple twice
C13_Witness ==
    /\ C13_Updated
    /\ Count(dns_before[request.zone_name],
             Rec(request.args[1], request.args[2], request.args[3])) >= 2

(***************************************************************************)
(* C14.  In a bulk_update, a change with no hostname, record type or new   *)
(* value, and a change for which the oracle gives the simulated failure,   *)
(* leave the zone as it was and are appended to failed_changes; a change   *)
(* with missing data does not consult the oracle; failed_changes holds the *)
(* failed changes in the order of the request.                             *)
(***************************************************************************)
\* locals.tally runs from zeros to the counts the loop ended with
C14_TallyFits ==
    /\ Len(locals.tally) = Len(request.args.changes) + 1
    /\ locals.tally[1] = [success_count |-> 0, failed |-> 0, rolled |-> 0]
    /\ locals.tally[Len(locals.tally)] =
           [success_count |-> locals.success_count,
            failed |-> Len(locals.failed_changes),
            rolled |-> locals.rolled]

C14_MissingData(i) ==
    \/ request.args.changes[i].hostname \in {None, ""}
    \/ request.args.changes[i].record_type \in {None, ""}
    \/ request.args.changes[i].new_value \in {None, ""}

\* what the oracle gives for change i, which is not missing data: the
\* answer that follows those given to the changes before it
C14_SimulatedFailure(i) ==
    /\ ~C14_MissingData(i)
    /\ ~request.args.rolls[locals.tally[i].rolled + 1]

\* change i is what the loop appended to failed_changes, with the error
C14_FailedAs(i, error) ==
    /\ locals.zones[i + 1] = locals.zones[i]
    /\ locals.tally[i + 1].failed = locals.tally[i].failed + 1
    /\ locals.tally[i + 1].success_count = locals.tally[i].success_count
    /\ locals.failed_changes[locals.tally[i + 1].failed] =
           [change |-> request.args.changes[i], error |-> error]

\* C14: missing-data and simulated-failure changes change nothing and are in
\* failed_changes, in the order of the request; missing data rolls nothing
C14_FailedChangesLeaveZoneAndAreListed ==
    BulkRan =>
        LET n == Len(request.args.changes)
        IN  /\ TraceFits(n)
            /\ C14_TallyFits
            /\ IF locals.failed_changes # <<>>
               THEN /\ "failed_changes" \in DOMAIN response.body
                    /\ response.body.failed_changes = locals.failed_changes
               ELSE "failed_changes" \notin DOMAIN response.body
            /\ \A i \in 1..n :
                  /\ C14_MissingData(i) =>
                         /\ C14_FailedAs(i, "Missing data")
                         /\ locals.tally[i + 1].rolled = locals.tally[i].rolled
                  /\ C14_SimulatedFailure(i) =>
                         C14_FailedAs(i, "Simulated failure")
            /\ \A i \in 1..n :
                   locals.tally[i + 1].failed \in
                       {locals.tally[i].failed, locals.tally[i].failed + 1}
            /\ \A k \in 1..Len(locals.failed_changes) :
                   \E i \in 1..n :
                       /\ locals.tally[i + 1].failed = k
                       /\ locals.tally[i].failed = k - 1
                       /\ locals.failed_changes[k].change = request.args.changes[i]
            /\ (\A i \in 1..n : C14_MissingData(i) \/ C14_SimulatedFailure(i))
                   => dns_data = dns_before

\* C14: a batch held a simulated failure and, after it, a change with
\* missing data
C14_Witness ==
    /\ BulkRan
    /\ \E i, j \in 1..Len(request.args.changes) :
           /\ i < j
           /\ C14_SimulatedFailure(i)
           /\ C14_MissingData(j)

(***************************************************************************)
(* C15.  On the oracle's success branch a change of a bulk_update does to  *)
(* the zone what the single operation does from the same store: with an    *)
(* old_value, update_record(hostname, record_type, old_value, new_value),  *)
(* with the same zone after it and found or not found alike; without one,  *)
(* add_record(hostname, record_type, new_value), and it is counted as a    *)
(* success.                                                                *)
(***************************************************************************)
\* change i is not missing data and the oracle gave it the success branch
C15_SuccessBranch(i) ==
    /\ ~C14_MissingData(i)
    /\ request.args.rolls[locals.tally[i].rolled + 1]

\* the store as change i found it
C15_StoreAt(i) == [dns_before EXCEPT ![request.zone_name] = locals.zones[i]]

C15_CountedSuccess(i) ==
    /\ locals.tally[i + 1].success_count = locals.tally[i].success_count + 1
    /\ locals.tally[i + 1].failed = locals.tally[i].failed

C15_CountedNotFound(i) ==
    /\ locals.tally[i + 1].success_count = locals.tally[i].success_count
    /\ locals.tally[i + 1].failed = locals.tally[i].failed + 1
    /\ locals.failed_changes[locals.tally[i + 1].failed] =
           [change |-> request.args.changes[i],
            error |-> "Record not found for update (simulated)"]

\* C15: on the success branch a change leaves the zone as update_record or
\* add_record leaves it from the same store, with the same outcome
C15_ChangeAsSingleOperation ==
    BulkRan =>
        /\ TraceFits(Len(request.args.changes))
        /\ C14_TallyFits
        /\ \A i \in 1..Len(request.args.changes) :
              C15_SuccessBranch(i) =>
                LET c == request.args.changes[i]
                    z == request.zone_name
                IN  IF c.old_value \notin {None, ""}
                    THEN LET r == update_record(C15_StoreAt(i), <<>>, z, c.hostname,
                                      c.record_type, c.old_value, c.new_value)
                         IN  /\ r.status \in {200, 404}
                             /\ r.data[z] = locals.zones[i + 1]
                             /\ r.status = 200 <=> C15_CountedSuccess(i)
                             /\ r.status = 404 <=> C15_CountedNotFound(i)
                    ELSE LET r == add_record(C15_StoreAt(i), <<>>, z, c.hostname,
                                      c.record_type, c.new_value)
                         IN  /\ r.status = 201
                             /\ r.data[z] = locals.zones[i + 1]
                             /\ C15_CountedSuccess(i)

\* C15: a batch on the success branch held an update that found its record,
\* and after it an update that found none or an add
C15_Witness ==
    /\ BulkRan
    /\ \E i, j \in 1..Len(request.args.changes) :
           /\ i < j
           /\ C15_SuccessBranch(i)
           /\ C15_SuccessBranch(j)
           /\ request.args.changes[i].old_value \notin {None, ""}
           /\ C15_CountedSuccess(i)
           /\ \/ C15_CountedNotFound(j)
              \/ request.args.changes[j].old_value = None

(***************************************************************************)
(* C16.  get_records on a zone of the store returns the records of the     *)
(* zone that pass both filters, in stored order and no others: the record  *)
(* type is the type filter or the filter is "All"; and the search term is  *)
(* empty or is found, letter case apart, in the hostname or in the value.  *)
(* The call leaves the zone store as it is.                                *)
(***************************************************************************)
\* two characters are the same, letter case apart
C16_SameLetter(a, b) ==
    \/ a = b
    \/ \E k \in 1..26 : {a, b} = {UpperLetters[k], LowerLetters[k]}

\* the term is found in the string s, letter case apart
C16_FoundIn(term, s) ==
    \E k \in 0..(Len(Chars(s)) - Len(Chars(term))) :
        \A i \in 1..Len(Chars(term)) :
            C16_SameLetter(Chars(s)[k + i], Chars(term)[i])

C16_PassesBoth(record, type_filter, term) ==
    /\ type_filter = "All" \/ record.record_type = type_filter
    /\ \/ term = ""
       \/ C16_FoundIn(term, record.hostname)
       \/ C16_FoundIn(term, record.value)

\* the places in the zone of the records that pass both filters
C16_Passing ==
    {i \in 1..Len(dns_before[request.zone_name]) :
        C16_PassesBoth(dns_before[request.zone_name][i],
                       request.args[1], request.args[2])}

\* C16: get_records returns the records that pass both filters, in stored
\* order, and leaves the store as it is
C16_FilteredInStoredOrder ==
    request.op = "get_records" =>
        /\ dns_data = dns_before
        /\ HasZone(dns_before, request.zone_name) =>
              /\ response.status = 200
              /\ Len(response.body.records) = Cardinality(C16_Passing)
              /\ \A i \in C16_Passing :
                    response.body.records[Cardinality({j \in C16_Passing : j <= i})]
                        = dns_before[request.zone_name][i]

\* C16: a search in capitals, with a type filter, returned a record for its
\* value and left out a record that the search alone would have returned
C16_Witness ==
    /\ request.op = "get_records"
    /\ response.status = 200
    /\ request.args[1] # "All"
    /\ request.args[2] = "WWW"
    /\ \E k \in 1..Len(response.body.records) :
           ~C16_FoundIn(request.args[2], response.body.records[k].hostname)
    /\ \E i \in 1..Len(dns_before[request.zone_name]) :
           /\ C16_FoundIn(request.args[2], dns_before[request.zone_name][i].hostname)
           /\ i \notin C16_Passing

(***************************************************************************)
(* C17.  The write handlers check the request before they look the zone    *)
(* up: an add_record or update_record with a field missing, and a          *)
(* delete_records or bulk_update with an empty batch, answer 400 and not   *)
(* 404, also when the zone named is not in the store.                      *)
(***************************************************************************)
C17_Invalid ==
    \/ /\ request.op = "add_record"
       /\ \E k \in 1..3 : request.args[k] \in {None, ""}
    \/ /\ request.op = "update_record"
       /\ \E k \in 1..4 : request.args[k] \in {None, ""}
    \/ /\ request.op = "delete_records"
       /\ Len(request.args) = 0
    \/ /\ request.op = "bulk_update"
       /\ Len(request.args.changes) = 0

\* C17: an invalid write request is answered 400, whether the zone exists
\* or not
C17_ValidationBeforeZoneLookup ==
    C17_Invalid =>
        /\ response.status = 400
        /\ response.body \in
               {[error |-> "Missing data for new record"],
                [error |-> "Missing data for record update"],
                [error |-> "No records provided for deletion"],
                [error |-> "No changes provided for bulk update"]}

\* C17: an add_record with a field missing, on a zone that is not in the
\* store, was answered 400
C17_Witness ==
    /\ request.op = "add_record"
    /\ C17_Invalid
    /\ ~HasZone(dns_before, request.zone_name)
    /\ response.status = 400

(***************************************************************************)
(* C18.  A batch is accounted for item by item.  When delete_records has   *)
(* run its loop, deleted_count plus the length of failed_deletions is the  *)
(* number of records asked for; when bulk_update has run its loop,         *)
(* success_count plus the length of failed_changes is the number of        *)
(* changes; each item added one to one of the two and nothing to the other.*)
(***************************************************************************)
\* an item took the first count from a1 to a2 and the second from b1 to b2:
\* it added one to one of them and nothing to the other
C18_CountedOnce(a1, a2, b1, b2) ==
    \/ a2 = a1 + 1 /\ b2 = b1
    \/ a2 = a1 /\ b2 = b1 + 1

\* C18: every item of a batch is counted once, as done or as failed
C18_BatchAccounting ==
    /\ DeleteRan =>
          LET n == Len(request.args)
          IN  /\ Len(locals.tally) = n + 1
              /\ locals.tally[1] = [deleted_count |-> 0, failed |-> 0]
              /\ locals.tally[n + 1] =
                     [deleted_count |-> locals.deleted_count,
                      failed |-> Len(locals.failed_deletions)]
              /\ locals.deleted_count + Len(locals.failed_deletions) = n
              /\ response.body.message.fields[1] = str(locals.deleted_count)
              /\ \A i \in 1..n :
                     C18_CountedOnce(locals.tally[i].deleted_count,
                                     locals.tally[i + 1].deleted_count,
                                     locals.tally[i].failed,
                                     locals.tally[i + 1].failed)
    /\ BulkRan =>
          LET n == Len(request.args.changes)
          IN  /\ C14_TallyFits
              /\ locals.success_count + Len(locals.failed_changes) = n
              /\ response.body.message.fields[1] = str(locals.success_count)
              /\ \A i \in 1..n :
                     C18_CountedOnce(locals.tally[i].success_count,
                                     locals.tally[i + 1].success_count,
                                     locals.tally[i].failed,
                                     locals.tally[i + 1].failed)

\* C18: a bulk_update batch held a change that succeeded and one that failed
C18_Witness ==
    /\ BulkRan
    /\ locals.success_count >= 1
    /\ Len(locals.failed_changes) >= 1

(***************************************************************************)
(* C19.  After every sequence of calls the zones of the store are the      *)
(* zones of the seed: no call adds a zone, a call that names an unknown    *)
(* zone included, and none removes one.  A call for a zone leaves the list *)
(* of every other zone as it was.                                          *)
(***************************************************************************)
\* C19: the zones are the seed's, and the zones the call did not name are as
\* they were
C19_ZonesFixedAndOthersUntouched ==
    /\ DOMAIN dns_data = {SeedZones[i] : i \in 1..Len(SeedZones)}
    /\ \A z \in DOMAIN dns_data :
           z # request.zone_name => dns_data[z] = dns_before[z]

\* C19: a valid add_record named a zone that is not in the store, after
\* calls that changed a zone of the store
C19_Witness ==
    /\ request.op = "add_record"
    /\ ~C17_Invalid
    /\ request.zone_name \notin {SeedZones[i] : i \in 1..Len(SeedZones)}
    /\ response.status = 404
    /\ dns_data["example.com"] # SeedRecords("example.com")

=============================================================================
